---- MODULE Spec2Model ----
(***************************************************************************)
(* EDI segment decoder (agents/parser-agent.py) and CARC/RARC code         *)
(* extractor (agents/root-cause-analyst-agent.py).                         *)
(*                                                                         *)
(* A Python str is modelled as the sequence of its characters, a Python    *)
(* list as a sequence, a Python dict as a function from its keys, and None *)
(* as the one-element tuple <<"None">>, which is no sequence of            *)
(* characters.                                                             *)
(***************************************************************************)
EXTENDS Integers, Sequences, FiniteSets

\* ---------------------------------------------------------------- bounds
\* longest field list handed to map_segment_data in SpecDecode
MaxFieldCount == 11
\* most chunks of a file built from ChunkPool in SpecFile
MaxChunks == 3
\* most fields after the identifier of a generated single-segment file
MaxFields == 4
\* most files of one batch in SpecBatch and SpecMain
MaxFiles == 3

\* ------------------------------------------------- Python built-in values
None == <<"None">>

Whitespace == {" ", "\n"}

Digits == {"0", "1", "2", "3", "4", "5", "6", "7", "8", "9"}

Letters ==
    {"A", "B", "C", "D", "E", "F", "G", "H", "I", "J", "K", "L", "M",
     "N", "O", "P", "Q", "R", "S", "T", "U", "V", "W", "X", "Y", "Z",
     "a", "b", "c", "d", "e", "f", "g", "h", "i", "j", "k", "l", "m",
     "n", "o", "p", "q", "r", "s", "t", "u", "v", "w", "x", "y", "z"}

Range(s) == {s[i] : i \in DOMAIN s}

\* bool(v) of a str or None: None and "" are falsy
Truthy(v) == v /= None /\ v /= <<>>

\* s[i:] with a 0-based start
SliceFrom(s, i) == IF i >= Len(s) THEN <<>> ELSE SubSeq(s, i + 1, Len(s))

\* s.lstrip() / s.rstrip() / s.strip()
RECURSIVE LStrip(_)
LStrip(s) == IF s /= <<>> /\ Head(s) \in Whitespace THEN LStrip(Tail(s)) ELSE s

RECURSIVE RStrip(_)
RStrip(s) ==
    IF s /= <<>> /\ s[Len(s)] \in Whitespace
    THEN RStrip(SubSeq(s, 1, Len(s) - 1))
    ELSE s

Strip(s) == RStrip(LStrip(s))

\* s.split(sep) for a one-character sep: always at least one piece
RECURSIVE SplitFrom(_, _, _, _)
SplitFrom(s, sep, i, cur) ==
    IF i > Len(s) THEN <<cur>>
    ELSE IF s[i] = sep THEN <<cur>> \o SplitFrom(s, sep, i + 1, <<>>)
    ELSE SplitFrom(s, sep, i + 1, Append(cur, s[i]))

Split(s, sep) == SplitFrom(s, sep, 1, <<>>)

\* s.startswith(prefix)
StartsWith(s, prefix) ==
    Len(s) >= Len(prefix) /\ SubSeq(s, 1, Len(prefix)) = prefix

\* s.isdigit(): at least one character, all of them digits
IsDigit(s) == s /= <<>> /\ \A i \in DOMAIN s : s[i] \in Digits

\* any(c.isalpha() for c in s)
AnyAlpha(s) == \E i \in DOMAIN s : s[i] \in Letters

DigitChar(d) ==
    CASE d = 0 -> "0" [] d = 1 -> "1" [] d = 2 -> "2" [] d = 3 -> "3"
      [] d = 4 -> "4" [] d = 5 -> "5" [] d = 6 -> "6" [] d = 7 -> "7"
      [] d = 8 -> "8" [] d = 9 -> "9"

DigitValue(c) ==
    CASE c = "0" -> 0 [] c = "1" -> 1 [] c = "2" -> 2 [] c = "3" -> 3
      [] c = "4" -> 4 [] c = "5" -> 5 [] c = "6" -> 6 [] c = "7" -> 7
      [] c = "8" -> 8 [] c = "9" -> 9

\* str(i) of a non-negative int, as the f-string f"{i}" formats it
RECURSIVE IntToStr(_)
IntToStr(i) ==
    IF i < 10 THEN <<DigitChar(i)>>
    ELSE Append(IntToStr(i \div 10), DigitChar(i % 10))

\* int(s) raises ValueError unless s is a decimal numeral; the records of
\* this program never carry a sign, an underscore or padding in a key
IntParses(s) == IsDigit(s)

RECURSIVE StrToInt(_)
StrToInt(s) ==
    IF Len(s) = 1 THEN DigitValue(s[1])
    ELSE 10 * StrToInt(SubSeq(s, 1, Len(s) - 1)) + DigitValue(s[Len(s)])

\* a dict literal / comprehension from a list of <<key, value>> pairs; a
\* later pair with the same key replaces an earlier one
MkDict(pairs) ==
    [k \in {pairs[i][1] : i \in DOMAIN pairs} |->
        LET last == CHOOSE i \in DOMAIN pairs :
                        /\ pairs[i][1] = k
                        /\ \A j \in DOMAIN pairs : pairs[j][1] = k => j <= i
        IN pairs[last][2]]

\* ------------------------------------------------ EDIParserAgent schema
\* The identifiers the if/elif chain of map_segment_data names.
KnownIds ==
    {<<"N", "M", "1">>, <<"I", "S", "A">>, <<"G", "S">>, <<"S", "T">>,
     <<"B", "H", "T">>, <<"P", "E", "R">>, <<"H", "L">>, <<"N", "3">>,
     <<"N", "4">>, <<"R", "E", "F">>, <<"S", "B", "R">>, <<"D", "M", "G">>,
     <<"C", "L", "M">>, <<"H", "I">>, <<"P", "R", "V">>, <<"L", "X">>,
     <<"S", "V", "1">>, <<"D", "T", "P">>, <<"S", "E">>}

\* The entries of each branch's dict literal that read one positional field:
\* <<key, index, guarded>>, guarded being TRUE where the source writes
\* `fields[i] if len(fields) > i else None` and FALSE where it writes a
\* bare `fields[i]`.
Schema(segment_id) ==
    CASE segment_id = <<"N", "M", "1">> -> <<
        \* "entity_identifier_code": fields[1],
        <<<<"e", "n", "t", "i", "t", "y", "_", "i", "d", "e", "n", "t", "i", "f", "i", "e", "r", "_", "c", "o", "d", "e">>, 1, FALSE>>,
        \* "entity_type_qualifier": fields[2],
        <<<<"e", "n", "t", "i", "t", "y", "_", "t", "y", "p", "e", "_", "q", "u", "a", "l", "i", "f", "i", "e", "r">>, 2, FALSE>>,
        \* "name_last_or_organization": fields[3],
        <<<<"n", "a", "m", "e", "_", "l", "a", "s", "t", "_", "o", "r", "_", "o", "r", "g", "a", "n", "i", "z", "a", "t", "i", "o", "n">>, 3, FALSE>>,
        \* "name_first": fields[4] if len(fields) > 4 else None,
        <<<<"n", "a", "m", "e", "_", "f", "i", "r", "s", "t">>, 4, TRUE>>,
        \* "name_middle": fields[5] if len(fields) > 5 else None,
        <<<<"n", "a", "m", "e", "_", "m", "i", "d", "d", "l", "e">>, 5, TRUE>>
        >>
      [] segment_id = <<"I", "S", "A">> -> <<
        \* "authorization_information_qualifier": fields[1],
        <<<<"a", "u", "t", "h", "o", "r", "i", "z", "a", "t", "i", "o", "n", "_", "i", "n", "f", "o", "r", "m", "a", "t", "i", "o", "n", "_", "q", "u", "a", "l", "i", "f", "i", "e", "r">>, 1, FALSE>>,
        \* "authorization_information": fields[2],
        <<<<"a", "u", "t", "h", "o", "r", "i", "z", "a", "t", "i", "o", "n", "_", "i", "n", "f", "o", "r", "m", "a", "t", "i", "o", "n">>, 2, FALSE>>,
        \* "security_information_qualifier": fields[3],
        <<<<"s", "e", "c", "u", "r", "i", "t", "y", "_", "i", "n", "f", "o", "r", "m", "a", "t", "i", "o", "n", "_", "q", "u", "a", "l", "i", "f", "i", "e", "r">>, 3, FALSE>>,
        \* "security_information": fields[4],
        <<<<"s", "e", "c", "u", "r", "i", "t", "y", "_", "i", "n", "f", "o", "r", "m", "a", "t", "i", "o", "n">>, 4, FALSE>>,
        \* "interchange_sender_id": fields[6],
        <<<<"i", "n", "t", "e", "r", "c", "h", "a", "n", "g", "e", "_", "s", "e", "n", "d", "e", "r", "_", "i", "d">>, 6, FALSE>>,
        \* "interchange_receiver_id": fields[7],
        <<<<"i", "n", "t", "e", "r", "c", "h", "a", "n", "g", "e", "_", "r", "e", "c", "e", "i", "v", "e", "r", "_", "i", "d">>, 7, FALSE>>
        >>
      [] segment_id = <<"G", "S">> -> <<
        \* "functional_group_code": fields[1],
        <<<<"f", "u", "n", "c", "t", "i", "o", "n", "a", "l", "_", "g", "r", "o", "u", "p", "_", "c", "o", "d", "e">>, 1, FALSE>>,
        \* "application_sender_code": fields[2],
        <<<<"a", "p", "p", "l", "i", "c", "a", "t", "i", "o", "n", "_", "s", "e", "n", "d", "e", "r", "_", "c", "o", "d", "e">>, 2, FALSE>>,
        \* "application_receiver_code": fields[3],
        <<<<"a", "p", "p", "l", "i", "c", "a", "t", "i", "o", "n", "_", "r", "e", "c", "e", "i", "v", "e", "r", "_", "c", "o", "d", "e">>, 3, FALSE>>
        >>
      [] segment_id = <<"S", "T">> -> <<
        \* "transaction_set_identifier_code": fields[1] if len(fields) > 1 else None,
        <<<<"t", "r", "a", "n", "s", "a", "c", "t", "i", "o", "n", "_", "s", "e", "t", "_", "i", "d", "e", "n", "t", "i", "f", "i", "e", "r", "_", "c", "o", "d", "e">>, 1, TRUE>>,
        \* "transaction_set_control_number": fields[2] if len(fields) > 2 else None,
        <<<<"t", "r", "a", "n", "s", "a", "c", "t", "i", "o", "n", "_", "s", "e", "t", "_", "c", "o", "n", "t", "r", "o", "l", "_", "n", "u", "m", "b", "e", "r">>, 2, TRUE>>
        >>
      [] segment_id = <<"B", "H", "T">> -> <<
        \* "hierarchical_structure_code": fields[1] if len(fields) > 1 else None,
        <<<<"h", "i", "e", "r", "a", "r", "c", "h", "i", "c", "a", "l", "_", "s", "t", "r", "u", "c", "t", "u", "r", "e", "_", "c", "o", "d", "e">>, 1, TRUE>>,
        \* "transaction_set_purpose_code": fields[2] if len(fields) > 2 else None,
        <<<<"t", "r", "a", "n", "s", "a", "c", "t", "i", "o", "n", "_", "s", "e", "t", "_", "p", "u", "r", "p", "o", "s", "e", "_", "c", "o", "d", "e">>, 2, TRUE>>,
        \* "reference_identification": fields[3] if len(fields) > 3 else None,
        <<<<"r", "e", "f", "e", "r", "e", "n", "c", "e", "_", "i", "d", "e", "n", "t", "i", "f", "i", "c", "a", "t", "i", "o", "n">>, 3, TRUE>>,
        \* "date": fields[4] if len(fields) > 4 else None,
        <<<<"d", "a", "t", "e">>, 4, TRUE>>,
        \* "time": fields[5] if len(fields) > 5 else None,
        <<<<"t", "i", "m", "e">>, 5, TRUE>>,
        \* "transaction_type_code": fields[6] if len(fields) > 6 else None,
        <<<<"t", "r", "a", "n", "s", "a", "c", "t", "i", "o", "n", "_", "t", "y", "p", "e", "_", "c", "o", "d", "e">>, 6, TRUE>>
        >>
      [] segment_id = <<"P", "E", "R">> -> <<
        \* "contact_function_code": fields[1] if len(fields) > 1 else None,
        <<<<"c", "o", "n", "t", "a", "c", "t", "_", "f", "u", "n", "c", "t", "i", "o", "n", "_", "c", "o", "d", "e">>, 1, TRUE>>,
        \* "name": fields[2] if len(fields) > 2 else None,
        <<<<"n", "a", "m", "e">>, 2, TRUE>>,
        \* "comm_qual_1": fields[3] if len(fields) > 3 else None,
        <<<<"c", "o", "m", "m", "_", "q", "u", "a", "l", "_", "1">>, 3, TRUE>>,
        \* "comm_number_1": fields[4] if len(fields) > 4 else None,
        <<<<"c", "o", "m", "m", "_", "n", "u", "m", "b", "e", "r", "_", "1">>, 4, TRUE>>,
        \* "comm_qual_2": fields[5] if len(fields) > 5 else None,
        <<<<"c", "o", "m", "m", "_", "q", "u", "a", "l", "_", "2">>, 5, TRUE>>,
        \* "comm_number_2": fields[6] if len(fields) > 6 else None,
        <<<<"c", "o", "m", "m", "_", "n", "u", "m", "b", "e", "r", "_", "2">>, 6, TRUE>>
        >>
      [] segment_id = <<"H", "L">> -> <<
        \* "hierarchical_id_number": fields[1] if len(fields) > 1 else None,
        <<<<"h", "i", "e", "r", "a", "r", "c", "h", "i", "c", "a", "l", "_", "i", "d", "_", "n", "u", "m", "b", "e", "r">>, 1, TRUE>>,
        \* "hierarchical_parent_id_number": fields[2] if len(fields) > 2 else None,
        <<<<"h", "i", "e", "r", "a", "r", "c", "h", "i", "c", "a", "l", "_", "p", "a", "r", "e", "n", "t", "_", "i", "d", "_", "n", "u", "m", "b", "e", "r">>, 2, TRUE>>,
        \* "hierarchical_level_code": fields[3] if len(fields) > 3 else None,
        <<<<"h", "i", "e", "r", "a", "r", "c", "h", "i", "c", "a", "l", "_", "l", "e", "v", "e", "l", "_", "c", "o", "d", "e">>, 3, TRUE>>,
        \* "hierarchical_child_code": fields[4] if len(fields) > 4 else None,
        <<<<"h", "i", "e", "r", "a", "r", "c", "h", "i", "c", "a", "l", "_", "c", "h", "i", "l", "d", "_", "c", "o", "d", "e">>, 4, TRUE>>
        >>
      [] segment_id = <<"N", "3">> -> <<
        \* "address_line_1": fields[1] if len(fields) > 1 else None,
        <<<<"a", "d", "d", "r", "e", "s", "s", "_", "l", "i", "n", "e", "_", "1">>, 1, TRUE>>,
        \* "address_line_2": fields[2] if len(fields) > 2 else None,
        <<<<"a", "d", "d", "r", "e", "s", "s", "_", "l", "i", "n", "e", "_", "2">>, 2, TRUE>>
        >>
      [] segment_id = <<"N", "4">> -> <<
        \* "city": fields[1] if len(fields) > 1 else None,
        <<<<"c", "i", "t", "y">>, 1, TRUE>>,
        \* "state": fields[2] if len(fields) > 2 else None,
        <<<<"s", "t", "a", "t", "e">>, 2, TRUE>>,
        \* "postal_code": fields[3] if len(fields) > 3 else None,
        <<<<"p", "o", "s", "t", "a", "l", "_", "c", "o", "d", "e">>, 3, TRUE>>
        >>
      [] segment_id = <<"R", "E", "F">> -> <<
        \* "reference_id_qualifier": fields[1] if len(fields) > 1 else None,
        <<<<"r", "e", "f", "e", "r", "e", "n", "c", "e", "_", "i", "d", "_", "q", "u", "a", "l", "i", "f", "i", "e", "r">>, 1, TRUE>>,
        \* "reference_id": fields[2] if len(fields) > 2 else None,
        <<<<"r", "e", "f", "e", "r", "e", "n", "c", "e", "_", "i", "d">>, 2, TRUE>>
        >>
      [] segment_id = <<"S", "B", "R">> -> <<
        \* "payer_relationship_code": fields[1] if len(fields) > 1 else None,
        <<<<"p", "a", "y", "e", "r", "_", "r", "e", "l", "a", "t", "i", "o", "n", "s", "h", "i", "p", "_", "c", "o", "d", "e">>, 1, TRUE>>,
        \* "benefit_status_code": fields[2] if len(fields) > 2 else None,
        <<<<"b", "e", "n", "e", "f", "i", "t", "_", "s", "t", "a", "t", "u", "s", "_", "c", "o", "d", "e">>, 2, TRUE>>,
        \* "insurance_type_code": fields[3] if len(fields) > 3 else None,
        <<<<"i", "n", "s", "u", "r", "a", "n", "c", "e", "_", "t", "y", "p", "e", "_", "c", "o", "d", "e">>, 3, TRUE>>,
        \* "coordination_of_benefits": fields[4] if len(fields) > 4 else None,
        <<<<"c", "o", "o", "r", "d", "i", "n", "a", "t", "i", "o", "n", "_", "o", "f", "_", "b", "e", "n", "e", "f", "i", "t", "s">>, 4, TRUE>>,
        \* "group_number": fields[5] if len(fields) > 5 else None,
        <<<<"g", "r", "o", "u", "p", "_", "n", "u", "m", "b", "e", "r">>, 5, TRUE>>
        >>
      [] segment_id = <<"D", "M", "G">> -> <<
        \* "date_time_qualifier": fields[1] if len(fields) > 1 else None,
        <<<<"d", "a", "t", "e", "_", "t", "i", "m", "e", "_", "q", "u", "a", "l", "i", "f", "i", "e", "r">>, 1, TRUE>>,
        \* "birth_date": fields[2] if len(fields) > 2 else None,
        <<<<"b", "i", "r", "t", "h", "_", "d", "a", "t", "e">>, 2, TRUE>>,
        \* "gender": fields[3] if len(fields) > 3 else None,
        <<<<"g", "e", "n", "d", "e", "r">>, 3, TRUE>>
        >>
      [] segment_id = <<"C", "L", "M">> -> <<
        \* "patient_control_number": fields[1] if len(fields) > 1 else None,
        <<<<"p", "a", "t", "i", "e", "n", "t", "_", "c", "o", "n", "t", "r", "o", "l", "_", "n", "u", "m", "b", "e", "r">>, 1, TRUE>>,
        \* "monetary_amount": fields[2] if len(fields) > 2 else None,
        <<<<"m", "o", "n", "e", "t", "a", "r", "y", "_", "a", "m", "o", "u", "n", "t">>, 2, TRUE>>,
        \* "filling_indicator": fields[3] if len(fields) > 3 else None,
        <<<<"f", "i", "l", "l", "i", "n", "g", "_", "i", "n", "d", "i", "c", "a", "t", "o", "r">>, 3, TRUE>>,
        \* "place_of_service": fields[4] if len(fields) > 4 else None,
        <<<<"p", "l", "a", "c", "e", "_", "o", "f", "_", "s", "e", "r", "v", "i", "c", "e">>, 4, TRUE>>,
        \* "facility_type_code": fields[5] if len(fields) > 5 else None,
        <<<<"f", "a", "c", "i", "l", "i", "t", "y", "_", "t", "y", "p", "e", "_", "c", "o", "d", "e">>, 5, TRUE>>
        >>
      [] segment_id = <<"H", "I">> -> <<
        >>
      [] segment_id = <<"P", "R", "V">> -> <<
        \* "provider_code": fields[1] if len(fields) > 1 else None,
        <<<<"p", "r", "o", "v", "i", "d", "e", "r", "_", "c", "o", "d", "e">>, 1, TRUE>>,
        \* "provider_qualifier": fields[2] if len(fields) > 2 else None,
        <<<<"p", "r", "o", "v", "i", "d", "e", "r", "_", "q", "u", "a", "l", "i", "f", "i", "e", "r">>, 2, TRUE>>,
        \* "provider_value": fields[3] if len(fields) > 3 else None,
        <<<<"p", "r", "o", "v", "i", "d", "e", "r", "_", "v", "a", "l", "u", "e">>, 3, TRUE>>
        >>
      [] segment_id = <<"L", "X">> -> <<
        \* "assigned_number": fields[1] if len(fields) > 1 else None,
        <<<<"a", "s", "s", "i", "g", "n", "e", "d", "_", "n", "u", "m", "b", "e", "r">>, 1, TRUE>>
        >>
      [] segment_id = <<"S", "V", "1">> -> <<
        \* svc_id = fields[1] if len(fields) > 1 else None
        <<<<"c", "o", "m", "p", "o", "s", "i", "t", "e", "_", "m", "e", "d", "_", "p", "r", "o", "c", "_", "i", "d">>, 1, TRUE>>,
        \* "charge_amount": fields[2] if len(fields) > 2 else None,
        <<<<"c", "h", "a", "r", "g", "e", "_", "a", "m", "o", "u", "n", "t">>, 2, TRUE>>,
        \* "unit_measure": fields[3] if len(fields) > 3 else None,
        <<<<"u", "n", "i", "t", "_", "m", "e", "a", "s", "u", "r", "e">>, 3, TRUE>>,
        \* "service_unit_count": fields[4] if len(fields) > 4 else None,
        <<<<"s", "e", "r", "v", "i", "c", "e", "_", "u", "n", "i", "t", "_", "c", "o", "u", "n", "t">>, 4, TRUE>>
        >>
      [] segment_id = <<"D", "T", "P">> -> <<
        \* "date_time_qualifier": fields[1] if len(fields) > 1 else None,
        <<<<"d", "a", "t", "e", "_", "t", "i", "m", "e", "_", "q", "u", "a", "l", "i", "f", "i", "e", "r">>, 1, TRUE>>,
        \* "date_time_period_format_qualifier": fields[2] if len(fields) > 2 else None,
        <<<<"d", "a", "t", "e", "_", "t", "i", "m", "e", "_", "p", "e", "r", "i", "o", "d", "_", "f", "o", "r", "m", "a", "t", "_", "q", "u", "a", "l", "i", "f", "i", "e", "r">>, 2, TRUE>>,
        \* "date_time_period": fields[3] if len(fields) > 3 else None,
        <<<<"d", "a", "t", "e", "_", "t", "i", "m", "e", "_", "p", "e", "r", "i", "o", "d">>, 3, TRUE>>
        >>
      [] segment_id = <<"S", "E">> -> <<
        \* "number_of_included_segments": fields[1] if len(fields) > 1 else None,
        <<<<"n", "u", "m", "b", "e", "r", "_", "o", "f", "_", "i", "n", "c", "l", "u", "d", "e", "d", "_", "s", "e", "g", "m", "e", "n", "t", "s">>, 1, TRUE>>,
        \* "transaction_set_control_number": fields[2] if len(fields) > 2 else None,
        <<<<"t", "r", "a", "n", "s", "a", "c", "t", "i", "o", "n", "_", "s", "e", "t", "_", "c", "o", "n", "t", "r", "o", "l", "_", "n", "u", "m", "b", "e", "r">>, 2, TRUE>>
        >>
      [] OTHER -> <<>>

\* -------------------------------------------- EDIParserAgent.map_segment_data
\* The outcome of a call: exc is the message of the exception it raised ("" when
\* it returned) and value is what it returned.
Return(v) == [exc |-> "", value |-> v]

Raise(msg) == [exc |-> msg, value |-> <<>>]

\* FieldOrNone with a fault: an empty field is taken for a missing one
FieldOrNoneTruthy(fields, i) ==
    IF Len(fields) > i /\ fields[i + 1] /= <<>> THEN fields[i + 1] ELSE None

\* `fields[i] if len(fields) > i else None`
FieldOrNone(fields, i) == IF Len(fields) > i THEN fields[i + 1] ELSE None

\* A bare `fields[i]` raises IndexError when i is not an index of the list.
IndexError(segment_id, fields) ==
    \E e \in Range(Schema(segment_id)) : ~e[3] /\ e[2] >= Len(fields)

\* the <<key, value>> pairs of the positional entries of the branch's dict
PositionalPairs(segment_id, fields) ==
    [n \in DOMAIN Schema(segment_id) |->
        LET e == Schema(segment_id)[n]
        IN <<e[1], FieldOrNone(fields, e[2])>>]

\* f"field_{i}"
FieldKey(i) == <<"f", "i", "e", "l", "d", "_">> \o IntToStr(i)

\* GenericRecord with a fault: the positions are numbered from 1
GenericRecordFromOne(fields) ==
    MkDict([n \in DOMAIN fields |-> <<FieldKey(n), fields[n]>>])

\* the else branch: {f"field_{i}": field for i, field in enumerate(fields)}
GenericRecord(fields) ==
    MkDict([n \in DOMAIN fields |-> <<FieldKey(n - 1), fields[n]>>])

MapSegmentData(segment_id, fields) ==
    IF segment_id \notin KnownIds THEN Return(GenericRecord(fields))
    ELSE IF segment_id = <<"H", "I">> THEN
        \* "hi_all": fields[1:] if len(fields) > 1 else []
        Return(MkDict(<< <<<<"h", "i", "_", "a", "l", "l">>,
                          IF Len(fields) > 1 THEN SliceFrom(fields, 1) ELSE <<>> >> >>))
    ELSE IF segment_id = <<"S", "V", "1">> THEN
        LET svc_id == FieldOrNone(fields, 1)
            \* svc_id.split(":") if svc_id else []
            svc_parts == IF Truthy(svc_id) THEN Split(svc_id, ":") ELSE <<>>
        IN Return(MkDict(PositionalPairs(segment_id, fields)
                         \o << <<<<"c", "o", "m", "p", "o", "s", "i", "t", "e", "_", "m", "e", "d", "_", "p", "r", "o", "c", "_", "i", "d", "_", "p", "a", "r", "t", "s">>, svc_parts>> >>))
    ELSE IF IndexError(segment_id, fields) THEN Raise("list index out of range")
    ELSE Return(MkDict(PositionalPairs(segment_id, fields)))

\* --------------------------------------------------- _fields_from_segment
\* the idxs list: int(k.split("_")[1]) of every key that starts with "field_"
\* and whose second piece int() accepts
FieldIdxs(seg) ==
    {StrToInt(Split(k, "_")[2]) :
        k \in {k \in DOMAIN seg : StartsWith(k, <<"f", "i", "e", "l", "d", "_">>)
                                  /\ IntParses(Split(k, "_")[2])}}

Max(S) == CHOOSE m \in S : \A x \in S : x <= m

\* seg.get(key): the value, or None when the dict has no such key
DictGet(seg, key) == IF key \in DOMAIN seg THEN seg[key] ELSE None

FieldsFromSegment(seg) ==
    IF FieldIdxs(seg) = {} THEN <<>>
    ELSE [n \in 1 .. (Max(FieldIdxs(seg)) + 1) |-> DictGet(seg, FieldKey(n - 1))]

\* ------------------------------------------------- EDIParserAgent.parse_edi
\* self.delimiter, the default of __init__
delimiter == "*"

\* the empty dict {}
EmptyStore == <<>>

\* The heap of dict objects a parser's self.segments can refer to: heap[ref] is
\* the content of the object ref names. EDIParserAgent() creates one empty dict.
NewParser == [heap |-> <<EmptyStore>>, ref |-> 1]

\* ResetSegments with a fault: the reset is missing, the call goes on filling the
\* dict the parser already holds
ResetSegmentsKeeps(heap, self_ref) == [heap |-> heap, ref |-> self_ref]

\* `self.segments = {}` at the top of parse_edi binds the attribute to a NEW
\* dict object; the object it named before is left as it was.
ResetSegments(heap, self_ref) ==
    [heap |-> Append(heap, EmptyStore), ref |-> Len(heap) + 1]

\* `if segment_id not in self.segments: self.segments[segment_id] = []`
EnsureKey(store, segment_id) ==
    IF segment_id \in DOMAIN store THEN store
    ELSE [k \in DOMAIN store \cup {segment_id} |->
            IF k = segment_id THEN <<>> ELSE store[k]]

\* SegmentId with a fault: the identifier is not trimmed
SegmentIdUntrimmed(segment_fields) == segment_fields[1]

\* the identifier of a chunk: segment_fields[0].strip()
SegmentId(segment_fields) == Strip(segment_fields[1])

\* The loop over raw_segments from position i on, store being the content of
\* self.segments so far. An exception of map_segment_data leaves the loop with
\* the store as it then is (the key already inserted).
RECURSIVE ParseSegments(_, _, _)
ParseSegments(raw_segments, i, store) ==
    IF i > Len(raw_segments) THEN [exc |-> "", segments |-> store]
    ELSE
        LET segment == Strip(raw_segments[i])
        IN  IF segment = <<>> THEN ParseSegments(raw_segments, i + 1, store)
            ELSE
                LET segment_fields == Split(segment, delimiter)
                    segment_id == SegmentId(segment_fields)
                IN  IF segment_id = <<>>
                    THEN ParseSegments(raw_segments, i + 1, store)
                    ELSE
                        LET keyed == EnsureKey(store, segment_id)
                            segment_data == MapSegmentData(segment_id, segment_fields)
                        IN  IF segment_data.exc /= ""
                            THEN [exc |-> segment_data.exc, segments |-> keyed]
                            ELSE ParseSegments(raw_segments, i + 1,
                                    [keyed EXCEPT ![segment_id] =
                                        Append(@, segment_data.value)])

\* parse_edi on the parser whose self.segments is heap[self_ref]. A file is
\* [readable, content]; open() of an unreadable path raises after the reset.
\* The result: the exception message ("" when the call returned), the heap
\* after the call and the object self.segments names (the one returned).
ParseEdi(heap, self_ref, file) ==
    LET reset == ResetSegments(heap, self_ref)
        run == IF ~file.readable
               THEN [exc |-> "No such file or directory",
                     segments |-> reset.heap[reset.ref]]
               ELSE ParseSegments(Split(file.content, "~"), 1, reset.heap[reset.ref])
    IN  [exc |-> run.exc,
         heap |-> [reset.heap EXCEPT ![reset.ref] = run.segments],
         ref |-> reset.ref]

\* ------------------------------------------------------------ extract_codes
\* segments.get(seg_name, [])
SegmentsGet(segments, seg_name) ==
    IF seg_name \in DOMAIN segments THEN segments[seg_name] ELSE <<>>

RECURSIVE Flatten(_)
Flatten(lists) == IF lists = <<>> THEN <<>> ELSE Head(lists) \o Flatten(Tail(lists))

\* CodeIndices with a fault: only the codes that have an amount slot are visited
CodeIndicesPaired(fields) ==
    [n \in 1 .. (IF Len(fields) > 3 THEN (Len(fields) - 2) \div 2 ELSE 0) |-> 2 * n]

\* range(2, len(fields), 2) as the list of its values
CodeIndices(fields) ==
    [n \in 1 .. (IF Len(fields) > 2 THEN (Len(fields) - 1) \div 2 ELSE 0) |-> 2 * n]

\* the entries one CAS segment appends to carc_list
CasEntries(cas) ==
    LET fields == FieldsFromSegment(cas)
        group == FieldOrNone(fields, 1)
        Entry(i) == [segment |-> <<"C", "A", "S">>,
                     group |-> group,
                     code |-> FieldOrNone(fields, i),
                     amount |-> FieldOrNone(fields, i + 1),
                     raw |-> fields]
        idxs == SelectSeq(CodeIndices(fields),
                          LAMBDA i : Truthy(FieldOrNone(fields, i)))
    IN  IF fields = <<>> THEN <<>> ELSE [n \in DOMAIN idxs |-> Entry(idxs[n])]

\* LqEntries with a fault: the length test is off by one
LqEntriesLonger(lq) ==
    LET fields == FieldsFromSegment(lq)
    IN  IF Len(fields) > 3
        THEN << [segment |-> <<"L", "Q">>,
                 qualifier |-> fields[2],
                 code |-> fields[3],
                 raw |-> fields] >>
        ELSE <<>>

\* the entries one LQ segment appends to rarc_list
LqEntries(lq) ==
    LET fields == FieldsFromSegment(lq)
    IN  IF Len(fields) >= 3
        THEN << [segment |-> <<"L", "Q">>,
                 qualifier |-> fields[2],
                 code |-> fields[3],
                 raw |-> fields] >>
        ELSE <<>>

\* LooksLikeCode with a fault: the length test of the alphabetic case is missing
LooksLikeCodeAnyLetter(f) == (Len(f) = 3 /\ IsDigit(f)) \/ AnyAlpha(f)

\* (len(f) == 3 and f.isdigit()) or (len(f) >= 2 and any(c.isalpha() for c in f))
LooksLikeCode(f) == (Len(f) = 3 /\ IsDigit(f)) \/ (Len(f) >= 2 /\ AnyAlpha(f))

\* the entries _search_generic_for_codes appends for one segment of seg_name
GenericEntries(seg_name, seg) ==
    LET fields == FieldsFromSegment(seg)
        rest == SliceFrom(fields, 1)
        hits == SelectSeq(rest, LAMBDA f : Truthy(f) /\ LooksLikeCode(f))
    IN  [n \in DOMAIN hits |->
            [segment |-> seg_name, code |-> hits[n], raw |-> fields]]

SearchGenericForCodes(segments, seg_name) ==
    LET segs == SegmentsGet(segments, seg_name)
    IN  Flatten([n \in DOMAIN segs |-> GenericEntries(seg_name, segs[n])])

\* for seg_name in ("REF", "NTE", "K3", "PLB")
GenericSegNames == <<<<"R", "E", "F">>, <<"N", "T", "E">>, <<"K", "3">>, <<"P", "L", "B">>>>

ExtractCodes(segments) ==
    LET cas == SegmentsGet(segments, <<"C", "A", "S">>)
        lq == SegmentsGet(segments, <<"L", "Q">>)
    IN  [carc |-> Flatten([n \in DOMAIN cas |-> CasEntries(cas[n])]),
         rarc |-> Flatten([n \in DOMAIN lq |-> LqEntries(lq[n])])
                  \o Flatten([n \in DOMAIN GenericSegNames |->
                        SearchGenericForCodes(segments, GenericSegNames[n])])]

\* the {"error": str(e)} the callers record for a file that raised
ErrorMarker(msg) == [error |-> msg]

\* ------------------------------------------------------------------- state
VARIABLES
    pc,             \* position of the running program
    segment_id,     \* SpecDecode: the identifier handed to map_segment_data
    fields,         \* SpecDecode: the field list handed to map_segment_data
    decoded,        \* SpecDecode: the outcome of map_segment_data
    rebuilt,        \* SpecDecode: _fields_from_segment of the decoded record
    files,          \* the resolved list of files, in glob order
    fi,             \* index of the file the loop is at
    segments,       \* analyze_file: the store parse_edi returned
    exc,            \* analyze_file: the message of the exception parse_edi raised
    results,        \* analyze_folder: results, one entry per file handled so far
    heap,           \* __main__ of the parser: the dict objects created so far
    self_segments,  \* __main__ of the parser: the object parser_agent.segments names
    all_results     \* __main__ of the parser: per file, a store object or an error

vars == <<pc, segment_id, fields, decoded, rebuilt, files, fi, segments, exc,
          results, heap, self_segments, all_results>>

\* ------------------------------------------------------------------- inputs
SeqsUpTo(S, n) == UNION {[1 .. m -> S] : m \in 0 .. n}

RECURSIVE Join(_, _)
Join(pieces, sep) ==
    IF Len(pieces) = 0 THEN <<>>
    ELSE IF Len(pieces) = 1 THEN pieces[1]
    ELSE pieces[1] \o <<sep>> \o Join(Tail(pieces), sep)

\* identifiers tried on map_segment_data: every known one and two unknown ones
DecodeIds == KnownIds \cup {<<"C", "A", "S">>, <<"Z", "Z">>}

\* field values tried on map_segment_data
DecodeFieldPool == {<<>>, <<"8", ":", "7">>}

\* first fields whose strip() is the identifier
Heads(id) == IF id \in {<<"S", "T">>, <<"Z", "Z">>} THEN {id, id \o <<" ">>} ELSE {id}

\* chunks (the text between two terminators) a file of SpecFile is made of
ChunkPool ==
    {<<"C", "A", "S", "*", "C", "O", "*", "4", "5", "*", "1", "0", "0", "*", "1", "5", "0", "*", "5", "0">>, <<"\n", "C", "A", "S", "*", "P", "R", "*", "1", "*", "*", "2">>,
     <<"L", "Q", "*", "H", "E", "*", "N", "1", "2", "3">>, <<"L", "Q", "*", "H", "E">>, <<"R", "E", "F", "*", "E", "A", "*", "M", "1", "5">>,
     <<"N", "T", "E", "*", "0", "4", "5", "*", "A", "*", "M", "1", "5">>, <<"K", "3", "*", "1", "2", "*", "a", "b", "*">>, <<"\n", "P", "L", "B", "*", "1", "2", "3", "4", "*", "X", "1", "\n">>,
     <<" ", "\n">>, <<" ", "*", "X">>, <<"Z", "Z", " ", "*", "f", "o", "o">>, <<"N", "M", "1", "*", "8", "5">>, <<"S", "T", "*", "*", "1", "2", "3">>}

\* identifiers and field values of the generated one-segment files
GenIds == {<<"C", "A", "S">>, <<"L", "Q">>, <<"N", "T", "E">>}

GenFieldPool == {<<>>, <<"A">>, <<"0", "4", "5">>, <<"M", "1", "5">>}

Readable(content) == [readable |-> TRUE, content |-> content]

Unreadable == [readable |-> FALSE, content |-> <<>>]

FileInputs ==
    {Readable(Join(chunks, "~")) : chunks \in SeqsUpTo(ChunkPool, MaxChunks)}
    \cup {Readable(Join(<<id>> \o fs, delimiter)) :
            id \in GenIds, fs \in SeqsUpTo(GenFieldPool, MaxFields)}
    \cup {Unreadable}

\* the files a batch is drawn from: three that decode, one that raises partway
\* through and one that cannot be opened
FilePool ==
    {Readable(<<"C", "A", "S", "*", "C", "O", "*", "4", "5", "*", "1", "0", "0", "~", "L", "Q", "*", "H", "E", "*", "N", "1", "2", "3", "~">>),
     Readable(<<"N", "T", "E", "*", "0", "4", "5", "~", "Z", "Z", "*", "f", "o", "o", "~", "\n">>),
     Readable(<<"S", "T", "*", "8", "3", "7", "~", "R", "E", "F", "*", "E", "A", "*", "M", "1", "5", "~">>),
     Readable(<<"Z", "Z", "*", "a", "~", "N", "M", "1", "*", "8", "5", "~", "L", "Q", "*", "X", "*", "Y", "~">>),
     Unreadable}

NoOutcome == [exc |-> "", value |-> <<>>]

\* --------------------------------------------------------------- SpecDecode
InitDecode ==
    /\ pc = "call"
    /\ segment_id \in DecodeIds
    /\ fields \in {<<h>> \o rest : h \in Heads(segment_id),
                                  rest \in SeqsUpTo(DecodeFieldPool, MaxFieldCount - 1)}
    /\ decoded = NoOutcome
    /\ rebuilt = <<>>
    /\ files = <<>>
    /\ fi = 1
    /\ segments = EmptyStore
    /\ exc = ""
    /\ results = <<>>
    /\ heap = <<>>
    /\ self_segments = 0
    /\ all_results = <<>>

\* self.map_segment_data(segment_id, segment_fields)
MapSegment ==
    /\ pc = "call"
    /\ decoded' = MapSegmentData(segment_id, fields)
    /\ pc' = IF decoded'.exc /= "" THEN "raised" ELSE "mapped"
    /\ UNCHANGED <<segment_id, fields, rebuilt, files, fi, segments, exc,
                   results, heap, self_segments, all_results>>

\* _fields_from_segment(seg) on the record the decoder stored
Reconstruct ==
    /\ pc = "mapped"
    /\ rebuilt' = FieldsFromSegment(decoded.value)
    /\ pc' = "rebuilt"
    /\ UNCHANGED <<segment_id, fields, decoded, files, fi, segments, exc,
                   results, heap, self_segments, all_results>>

NextDecode == MapSegment \/ Reconstruct

SpecDecode == InitDecode /\ [][NextDecode]_vars

\* ------------------------------------- analyze_folder / analyze_file
InitAnalyze(inputs) ==
    /\ pc = "loop"
    /\ files \in inputs
    /\ fi = 1
    /\ segments = EmptyStore
    /\ exc = ""
    /\ results = <<>>
    /\ segment_id = <<>>
    /\ fields = <<>>
    /\ decoded = NoOutcome
    /\ rebuilt = <<>>
    /\ heap = <<>>
    /\ self_segments = 0
    /\ all_results = <<>>

\* analyze_file(fp): parser = EDIParserAgent(); segments = parser.parse_edi(fp)
ParseFile ==
    /\ pc = "loop"
    /\ fi <= Len(files)
    /\ LET r == ParseEdi(NewParser.heap, NewParser.ref, files[fi])
       IN  /\ exc' = r.exc
           /\ segments' = IF r.exc = "" THEN r.heap[r.ref] ELSE EmptyStore
           /\ pc' = IF r.exc = "" THEN "parsed" ELSE "except"
    /\ UNCHANGED <<files, fi, results, segment_id, fields, decoded, rebuilt,
                   heap, self_segments, all_results>>

\* codes = extract_codes(segments); results[fp] = codes
ExtractFile ==
    /\ pc = "parsed"
    /\ results' = Append(results, ExtractCodes(segments))
    /\ fi' = fi + 1
    /\ pc' = "loop"
    /\ UNCHANGED <<files, segments, exc, segment_id, fields, decoded, rebuilt,
                   heap, self_segments, all_results>>

\* ExceptFile with a fault: the exception is not caught and ends the batch
ExceptFileAborts ==
    /\ pc = "except"
    /\ pc' = "done"
    /\ UNCHANGED <<files, fi, segments, exc, results, segment_id, fields,
                   decoded, rebuilt, heap, self_segments, all_results>>

\* except Exception as e: return {"error": str(e)}; results[fp] = that marker
ExceptFile ==
    /\ pc = "except"
    /\ results' = Append(results, ErrorMarker(exc))
    /\ fi' = fi + 1
    /\ pc' = "loop"
    /\ UNCHANGED <<files, segments, exc, segment_id, fields, decoded, rebuilt,
                   heap, self_segments, all_results>>

\* the loop is over: return results
ReturnResults ==
    /\ pc = "loop"
    /\ fi > Len(files)
    /\ pc' = "done"
    /\ UNCHANGED <<files, fi, segments, exc, results, segment_id, fields,
                   decoded, rebuilt, heap, self_segments, all_results>>

NextAnalyze == ParseFile \/ ExtractFile \/ ExceptFile \/ ReturnResults

\* one file, of any content FileInputs holds
InitFile == InitAnalyze({<<f>> : f \in FileInputs})

SpecFile == InitFile /\ [][NextAnalyze]_vars

\* a batch of up to MaxFiles files of FilePool
InitBatch == InitAnalyze(SeqsUpTo(FilePool, MaxFiles))

SpecBatch == InitBatch /\ [][NextAnalyze]_vars

\* ------------------------------------------ __main__ of parser-agent.py
InitMain ==
    /\ pc = "main"
    /\ files \in SeqsUpTo(FilePool, MaxFiles)
    /\ fi = 1
    /\ heap = NewParser.heap
    /\ self_segments = NewParser.ref
    /\ all_results = <<>>
    /\ segments = EmptyStore
    /\ exc = ""
    /\ results = <<>>
    /\ segment_id = <<>>
    /\ fields = <<>>
    /\ decoded = NoOutcome
    /\ rebuilt = <<>>

\* one turn of `for fp in files`: parsed = parser_agent.parse_edi(fp);
\* all_results[fp] = parsed, or {"error": str(e)} when the call raised
MainParse ==
    /\ pc = "main"
    /\ fi <= Len(files)
    /\ LET r == ParseEdi(heap, self_segments, files[fi])
       IN  /\ heap' = r.heap
           /\ self_segments' = r.ref
           /\ all_results' = Append(all_results,
                                IF r.exc = "" THEN [store |-> r.ref]
                                ELSE ErrorMarker(r.exc))
    /\ fi' = fi + 1
    /\ UNCHANGED <<pc, files, segments, exc, results, segment_id, fields,
                   decoded, rebuilt>>

\* print(json.dumps(all_results, indent=4))
MainPrint ==
    /\ pc = "main"
    /\ fi > Len(files)
    /\ pc' = "printed"
    /\ UNCHANGED <<files, fi, heap, self_segments, all_results, segments, exc,
                   results, segment_id, fields, decoded, rebuilt>>

NextMain == MainParse \/ MainPrint

SpecMain == InitMain /\ [][NextMain]_vars

\* ------------------------------------------------ vocabulary of the claims
\* the decimal numerals of the positions a field list of this model can have
Numerals ==
    <<<<"0">>, <<"1">>, <<"2">>, <<"3">>, <<"4">>, <<"5">>, <<"6">>, <<"7">>, <<"8">>, <<"9">>,
      <<"1", "0">>, <<"1", "1">>, <<"1", "2">>, <<"1", "3">>, <<"1", "4">>, <<"1", "5">>>>

\* the key a generic record is expected to carry for position i
PositionKey(i) == <<"f", "i", "e", "l", "d", "_">> \o Numerals[i + 1]

\* position i of a generic record, null when the record has no such position
PositionOf(rec, i) == IF PositionKey(i) \in DOMAIN rec THEN rec[PositionKey(i)] ELSE None

\* the number of positions of a generic record the decoder produced
Positions(rec) == Cardinality(DOMAIN rec)

\* the n-th smallest element of a finite set of integers
NthOf(S, n) == CHOOSE i \in S : Cardinality({j \in S : j <= i}) = n

\* the terminator-separated chunks of a file, each trimmed
TrimmedChunks(content) ==
    LET raw == Split(content, "~") IN [i \in DOMAIN raw |-> Strip(raw[i])]

ChunkFields(content, i) == Split(TrimmedChunks(content)[i], "*")

ChunkId(content, i) == Strip(ChunkFields(content, i)[1])

\* the chunks that are not blank and whose trimmed identifier is not empty
KeptChunks(content) ==
    {i \in DOMAIN TrimmedChunks(content) :
        TrimmedChunks(content)[i] /= <<>> /\ ChunkId(content, i) /= <<>>}

\* the store a file's content is expected to decode to: under each identifier,
\* the decoded chunks that carry it, in file order
ExpectedStore(content) ==
    [k \in {ChunkId(content, i) : i \in KeptChunks(content)} |->
        LET mine == {i \in KeptChunks(content) : ChunkId(content, i) = k}
        IN  [n \in 1 .. Cardinality(mine) |->
                MapSegmentData(k, ChunkFields(content, NthOf(mine, n))).value]]

\* the heuristic condition of the spec, on one field
IsCandidate(f) ==
    \/ Len(f) = 3 /\ \A n \in DOMAIN f : f[n] \in Digits
    \/ Len(f) >= 2 /\ \E n \in DOMAIN f : f[n] \in Letters

\* the one file of a SpecFile run was decoded and its codes extracted
Extracted == Len(results) = 1 /\ "carc" \in DOMAIN results[1]

\* lexicographic order on tuples of integers of one length
RECURSIVE LexLeq(_, _)
LexLeq(p, q) ==
    \/ p = <<>>
    \/ Head(p) < Head(q)
    \/ Head(p) = Head(q) /\ LexLeq(Tail(p), Tail(q))

\* the place of p among the tuples of S, in lexicographic order
RankIn(S, p) == Cardinality({q \in S : LexLeq(q, p)})

\* ------------------------------------------------------------------ claims
\* C1: for every known segment identifier and every field list of length >= 1
\* whose first field is that identifier, map_segment_data returns a record
\* without raising, and every semantic field whose positional index is beyond
\* the end of the field list is null.
C1_KnownNeverRaises ==
    (pc \in {"mapped", "raised", "rebuilt"}
        /\ segment_id \in KnownIds /\ fields[1] = segment_id)
    => /\ decoded.exc = ""
       /\ \A e \in Range(Schema(segment_id)) :
            e[2] >= Len(fields) => decoded.value[e[1]] = None

\* C2: parse_edi then extract_codes on a file with a REF segment emits, for
\* every field after the identifier of that segment that meets the heuristic
\* condition, a remark entry with segment REF and that field as code.
C2_RefFieldsFlagged ==
    (pc = "done" /\ Extracted)
    => LET content == files[1].content
       IN  \A i \in KeptChunks(content) :
             ChunkId(content, i) = <<"R", "E", "F">>
             => \A j \in 2 .. Len(ChunkFields(content, i)) :
                  IsCandidate(ChunkFields(content, i)[j])
                  => \E n \in DOMAIN results[1].rarc :
                        /\ results[1].rarc[n].segment = <<"R", "E", "F">>
                        /\ results[1].rarc[n].code = ChunkFields(content, i)[j]

\* the <<segment, index>> slots of the CAS segments that hold a non-empty code
CasSlots(store) ==
    LET cas == SegmentsGet(store, <<"C", "A", "S">>)
    IN  UNION {{<<s, i>> : i \in {i \in 2 .. Positions(cas[s]) - 1 :
                                     i % 2 = 0 /\ PositionOf(cas[s], i) /= <<>>}} :
               s \in DOMAIN cas}

\* C3: the adjustments list is the sequence obtained by visiting the CAS
\* segments in occurrence order and, within each, the indices 2, 4, 6, ... in
\* increasing order, with exactly one entry per index whose field is non-empty:
\* group = field 1, code = the field at the index, amount = the field at the
\* next index, or null when the segment has no such field.
C3_AdjustmentsArePairs ==
    Extracted
    => LET carc == results[1].carc
           cas == SegmentsGet(segments, <<"C", "A", "S">>)
           slots == CasSlots(segments)
       IN  /\ Len(carc) = Cardinality(slots)
           /\ \A p \in slots :
                LET entry == carc[RankIn(slots, p)]
                    rec == cas[p[1]]
                IN  /\ entry.segment = <<"C", "A", "S">>
                    /\ entry.group = PositionOf(rec, 1)
                    /\ entry.code = PositionOf(rec, p[2])
                    /\ entry.amount = IF p[2] + 1 < Positions(rec)
                                      THEN PositionOf(rec, p[2] + 1)
                                      ELSE None

\* a file with two adjustment entries, the last an unmatched trailing code
C3_Witness ==
    /\ pc = "done"
    /\ Extracted
    /\ Len(results[1].carc) = 2
    /\ results[1].carc[1].amount /= None
    /\ results[1].carc[2].amount = None

\* C4: analyze_folder does not raise and returns exactly one entry per
\* resolved path: an error marker {error: message} for each path that fails to
\* read or decode, and for every other path the carc/rarc result the file gets
\* when processed alone, wherever the failing files stand in the list.
C4_BatchIsolatesFailures ==
    /\ Len(results) <= Len(files)
    /\ pc = "done" => Len(results) = Len(files)
    /\ pc \in {"loop", "parsed", "except", "done"}
    /\ \A i \in DOMAIN results :
          LET f == files[i]
              fails == \/ ~f.readable
                       \/ \E c \in KeptChunks(f.content) :
                            MapSegmentData(ChunkId(f.content, c),
                                           ChunkFields(f.content, c)).exc /= ""
          IN  IF fails
              THEN /\ DOMAIN results[i] = {"error"}
                   /\ results[i].error /= ""
              ELSE results[i] = ExtractCodes(ExpectedStore(f.content))

\* a finished batch of three files whose first and last fail, for different
\* reasons, around one that decodes
C4_Witness ==
    /\ pc = "done"
    /\ Len(files) = 3
    /\ ~files[1].readable
    /\ "carc" \in DOMAIN results[2] /\ results[2].carc /= <<>>
    /\ files[3].readable /\ "error" \in DOMAIN results[3]

\* C5: after any sequence of parse_edi calls on one instance, failed calls
\* included, the store every successful call returned holds exactly what a
\* fresh instance decodes from that call's file, and later calls leave it so.
C5_StoresDoNotLeak ==
    \A i \in DOMAIN all_results :
        "store" \in DOMAIN all_results[i]
        => heap[all_results[i].store] = ExpectedStore(files[i].content)

\* three calls on one instance: a success, a call that fails partway through
\* its file, then another success
C5_Witness ==
    /\ pc = "printed"
    /\ Len(files) = 3
    /\ "store" \in DOMAIN all_results[1]
    /\ files[2].readable /\ "error" \in DOMAIN all_results[2]
    /\ Len(heap) = 4 /\ heap[3] /= EmptyStore
    /\ "store" \in DOMAIN all_results[3]
    /\ heap[all_results[1].store] /= heap[all_results[3].store]

\* C6: for an identifier outside the known set and a field list of length n,
\* the record's keys are exactly field_0 .. field_(n-1), the value at field_i
\* is the i-th field unchanged, and the extractor's positional reconstruction
\* of the record is the original field list.
C6_UnknownIsPositional ==
    (pc \in {"mapped", "rebuilt"} /\ segment_id \notin KnownIds)
    => /\ DOMAIN decoded.value = {PositionKey(i) : i \in 0 .. Len(fields) - 1}
       /\ \A i \in 0 .. Len(fields) - 1 :
            decoded.value[PositionKey(i)] = fields[i + 1]
       /\ pc = "rebuilt" => rebuilt = fields

\* an unknown identifier with a field list long enough for a two-digit key
C6_Witness ==
    /\ pc = "rebuilt"
    /\ segment_id = <<"Z", "Z">>
    /\ Len(fields) = 11
    /\ fields[11] /= <<>>

\* the <<type, segment, index>> slots of the NTE, K3 and PLB segments whose
\* field meets the heuristic condition, the types in the extractor's order
HeuristicTypes == <<<<"N", "T", "E">>, <<"K", "3">>, <<"P", "L", "B">>>>

HeuristicSlots(store) ==
    UNION {UNION {{<<t, s, i>> :
                     i \in {i \in 1 .. Positions(SegmentsGet(store, HeuristicTypes[t])[s]) - 1 :
                              IsCandidate(PositionOf(SegmentsGet(store, HeuristicTypes[t])[s], i))}} :
                  s \in DOMAIN SegmentsGet(store, HeuristicTypes[t])} :
           t \in DOMAIN HeuristicTypes}

C8_ExactRemarks ==
    Extracted
    => LET found == SelectSeq(results[1].rarc, LAMBDA e : e.segment = <<"L", "Q">>)
           lq == SegmentsGet(segments, <<"L", "Q">>)
           long == {s \in DOMAIN lq : Positions(lq[s]) >= 3}
       IN  /\ Len(found) = Cardinality(long)
           /\ \A s \in long :
                LET entry == found[Cardinality({r \in long : r <= s})]
                IN  /\ entry.qualifier = PositionOf(lq[s], 1)
                    /\ entry.code = PositionOf(lq[s], 2)
           /\ (DOMAIN segments) \cap
                 ({<<"C", "A", "S">>, <<"L", "Q">>} \cup Range(GenericSegNames)) = {}
              => results[1].carc = <<>> /\ results[1].rarc = <<>>

\* a file with a short LQ segment between two complete ones
C8_Witness ==
    /\ pc = "done"
    /\ Extracted
    /\ Len(SegmentsGet(segments, <<"L", "Q">>)) = 3
    /\ Positions(segments[<<"L", "Q">>][2]) = 2
    /\ Len(results[1].rarc) = 2

\* C9: for a known identifier, a semantic field whose source field is present
\* but is the empty string is decoded as null, as when the field is absent.
C9_EmptyFieldIsNull ==
    (pc \in {"mapped", "rebuilt"} /\ segment_id \in KnownIds)
    => \A e \in Range(Schema(segment_id)) :
          (e[2] < Len(fields) /\ fields[e[2] + 1] = <<>>)
          => decoded.value[e[1]] = None

\* C9 as amended: in the record map_segment_data returns for a known
\* identifier, a semantic field whose source field is present but is the empty
\* string is the empty string; it is null only when the source field is absent.
C9_EmptyFieldIsEmpty ==
    (pc \in {"mapped", "rebuilt"} /\ segment_id \in KnownIds)
    => \A e \in Range(Schema(segment_id)) :
          /\ (e[2] < Len(fields) /\ fields[e[2] + 1] = <<>>)
             => decoded.value[e[1]] = <<>>
          /\ decoded.value[e[1]] = None <=> e[2] >= Len(fields)

\* ST**8:7 decoded: the first element is present and empty
C9_Witness ==
    /\ pc = "mapped"
    /\ segment_id = <<"S", "T">>
    /\ fields = <<<<"S", "T">>, <<>>, <<"8", ":", "7">>>>
    /\ decoded.exc = ""

\* C10: the store parse_edi returns holds under each key exactly the decoded
\* chunks whose trimmed identifier is that key, in file order; blank chunks
\* and chunks with an empty identifier contribute nothing, so no key is the
\* empty string and no list is empty.
C10_StoreGroupsInOrder ==
    pc = "parsed"
    => /\ segments = ExpectedStore(files[fi].content)
       /\ <<>> \notin DOMAIN segments
       /\ \A k \in DOMAIN segments : segments[k] /= <<>>

\* three chunks: two of one identifier around one that is dropped
C10_Witness ==
    /\ pc = "parsed"
    /\ Len(TrimmedChunks(files[fi].content)) = 3
    /\ Cardinality(KeptChunks(files[fi].content)) = 2
    /\ 2 \notin KeptChunks(files[fi].content)
    /\ \E k \in DOMAIN segments :
          Len(segments[k]) = 2 /\ segments[k][1] /= segments[k][2]

====
